---- MODULE Spec2Model ----
(***************************************************************************)
(* The order / cart / checkout workflow of src/src/routes/                 *)
(* order_and_purchase.py over the Product, Order and Purchase tables of    *)
(* src/src/db/models.py, with the product, user, allergy, interest and     *)
(* dislike routes next to it.                                              *)
(*                                                                         *)
(* Money: Product.price is a float and is kept here in thousandths of a    *)
(* currency unit; Order.total_amount and Purchase.total_amount are         *)
(* Decimals with two places and are kept in hundredths.  Timestamps        *)
(* (created_at, updated_at) carry no behaviour and are left out.           *)
(***************************************************************************)
EXTENDS Integers, Sequences, FiniteSets, Bags, TLC

\* ---- bounds of the model -------------------------------------------------
\* rows the order and purchase tables hold together, at most
MaxRows == 4
\* largest quantity a purchase row holds
MaxQty == 2
\* rows the user table holds
MaxUsers == 2
\* rows the interest table and the dislike table hold, each
MaxPrefs == 2

\* ---- finite domains of the inputs ----------------------------------------
Users == {1, 2}
\* a user id that no row of the user table has
NoUser == 3
ProductIds == {"p1", "p2"}
NoProduct == "p0"
\* the user whose requests the one-shopper specifications follow
Shopper == 1
\* the prices, in thousandths, the catalogue gives a product over time
Prices == [p \in ProductIds |-> IF p = "p1" THEN {125, 250} ELSE {1000}]
\* quantities passed to add_to_cart and deltas passed to update_quantity
AddQtys == {-1, 0, 1, 2}
Deltas == {-2, -1, 0, 1}
\* the quantities the model lets a purchase row hold
LineQtys == 0..MaxQty
\* the quantities a shopper who means to buy asks for
Positive == 1..MaxQty
\* the two requests that may be in flight together
Sessions == {"s1", "s2"}

\* OrderStatus members used by the workflow
IN_CART == "In cart"
PURCHASED == "Purchased"

VARIABLES products, orders, users, user_allergy, allergy, interest, dislike,
          resp, reqs

vars == <<products, orders, users, user_allergy, allergy, interest, dislike,
          resp, reqs>>

\* The committed content of the tables.  A purchase row is kept with the
\* order it belongs to (Order.purchases), an order's id is its position.
\* A user's id is the position of its row; user_allergy is the bag of
\* <<user id, allergy name>> association rows.  allergy is the set of the
\* rows of the allergy table; an interest's and a dislike's id is the
\* position of its row.
DB == [products |-> products, orders |-> orders,
       users |-> users, user_allergy |-> user_allergy,
       allergy |-> allergy, interest |-> interest, dislike |-> dislike]

\* ---- pure helpers --------------------------------------------------------

\* round(x, 2) of a value given in thousandths, result in hundredths;
\* Python rounds an exact tie to the even neighbour.
Round2(m) ==
    LET c == m \div 10
        r == m % 10
    IN  IF r < 5 THEN c
        ELSE IF r > 5 THEN c + 1
        ELSE IF c % 2 = 0 THEN c ELSE c + 1

\* Decimal(str(round(product.price * quantity, 2)))
LineTotal(price, quantity) == Round2(price * quantity)

\* select(Order).where(Order.user_id == u, Order.checked_out == False)
OpenOrderIds(O, u) ==
    {i \in 1..Len(O) : O[i].user_id = u /\ ~O[i].checked_out}

\* the bag holding the one line l
OneLine(l) == SetToBag({l})

\* the lines of order.purchases that are for product p
LinesFor(order, p) == {l \in BagToSet(order.purchases) : l.product_id = p}

\* the bag of the elements of the sequence s
SeqToBag(s) ==
    [l \in {s[i] : i \in 1..Len(s)} |->
        Cardinality({i \in 1..Len(s) : s[i] = l})]

\* order.purchases is loaded by a query without ORDER BY: the lines of the
\* bag b in every order the store may return them in
Loadings(b) ==
    {s \in [1..BagCardinality(b) -> BagToSet(b)] : SeqToBag(s) = b}

\* A handler's outcome: the HTTP status, whether session.commit() was
\* reached, and the tables as the handler's session holds them at that point.
Outcome(status, committed, sess) ==
    [status |-> status, committed |-> committed, sess |-> sess]

\* (variant) the handler's uncommitted changes reach the tables
SessionKeepsChanges(committed, sess) == sess

\* get_session: the request's Session is closed when the request ends, which
\* discards whatever the handler changed and did not commit.
SessionClose(committed, sess) == committed

\* The tables after a request with outcome r that started from db.
AfterRequest(db, r) ==
    IF r.committed THEN r.sess ELSE SessionClose(db, r.sess)

\* ---- BuyCRUD.create_purchase (add_to_cart) -------------------------------

\* Purchase(**purchase_dict)
NewLine(u, p, q, total) ==
    [user_id |-> u, product_id |-> p, quantity |-> q,
     total_amount |-> total, status |-> IN_CART]

\* (variant) the new order starts with a total of zero
NewOrderWithLineNoTotal(db, u, p, q, total) ==
    [db EXCEPT
        !.orders = Append(@, [user_id |-> u, checked_out |-> FALSE,
                              total_amount |-> 0,
                              purchases |-> OneLine(NewLine(u, p, q, total))])]

\* the branch that creates the order together with its first line
NewOrderWithLine(db, u, p, q, total) ==
    [db EXCEPT
        !.orders = Append(@, [user_id |-> u, checked_out |-> FALSE,
                              total_amount |-> total,
                              purchases |-> OneLine(NewLine(u, p, q, total))])]

\* (variant) only the added quantity is priced and put on top of the old
\* line total
RepriceLineIncrementOnly(db, o, line, newq, price, order_total) ==
    LET newt == line.total_amount + LineTotal(price, newq - line.quantity)
        newline == [line EXCEPT !.quantity = newq, !.total_amount = newt]
    IN  [db EXCEPT
            !.orders[o].purchases = (@ (-) OneLine(line)) (+) OneLine(newline),
            !.orders[o].total_amount = (order_total - line.total_amount) + newt]

\* (variant) the order total gets the new line total on top, the old line
\* total is not taken off
RepriceLineKeepsOldTotal(db, o, line, newq, price, order_total) ==
    LET newt == LineTotal(price, newq)
        newline == [line EXCEPT !.quantity = newq, !.total_amount = newt]
    IN  [db EXCEPT
            !.orders[o].purchases = (@ (-) OneLine(line)) (+) OneLine(newline),
            !.orders[o].total_amount = order_total + newt]

\* the line of order o changes its quantity to newq and is priced again at
\* price; the order total, held by the handler as order_total, has the old
\* line total taken out and the new one put in
RepriceLine(db, o, line, newq, price, order_total) ==
    LET newt == LineTotal(price, newq)
        newline == [line EXCEPT !.quantity = newq, !.total_amount = newt]
    IN  [db EXCEPT
            !.orders[o].purchases = (@ (-) OneLine(line)) (+) OneLine(newline),
            !.orders[o].total_amount = (order_total - line.total_amount) + newt]

\* (variant) the order total is left as it was
AppendLineKeepsTotal(db, o, u, p, q, total, order_total) ==
    [db EXCEPT
        !.orders[o].purchases = @ (+) OneLine(NewLine(u, p, q, total)),
        !.orders[o].total_amount = order_total]

\* the branch that appends a new line to the open order o
AppendLine(db, o, u, p, q, total, order_total) ==
    [db EXCEPT
        !.orders[o].purchases = @ (+) OneLine(NewLine(u, p, q, total)),
        !.orders[o].total_amount = order_total + total]

NoLine == [product_id |-> NoProduct]

\* the lines at which a loop over order.purchases looking for product p may
\* stop, NoLine when the order has no line for p
HitsIn(order, p) ==
    IF LinesFor(order, p) = {} THEN {NoLine} ELSE LinesFor(order, p)

\* the same for the open order of user u, when the user has exactly one
Hits(db, u, p) ==
    LET open == OpenOrderIds(db.orders, u)
    IN  IF Cardinality(open) = 1
        THEN HitsIn(db.orders[CHOOSE x \in open : TRUE], p)
        ELSE {NoLine}

\* what create_purchase has read when it reaches its try block: the product
\* (its price) and the user's open orders with the total of the one it will
\* use.  status is 0 when the handler goes on, else the status it raised.
Read(status, u, p, q, price, open, order_total) ==
    [status |-> status, user_id |-> u, product_id |-> p, quantity |-> q,
     price |-> price, open |-> open, order_total |-> order_total]

\* (variant) an open order is used only when more than one is found
CreatePurchaseReadOffByOne(db, u, p, q) ==
    IF p \notin DOMAIN db.products
    THEN Read(404, u, p, q, 0, {}, 0)
    ELSE IF Cardinality(OpenOrderIds(db.orders, u)) > 1
    THEN Read(409, u, p, q, db.products[p].price, OpenOrderIds(db.orders, u), 0)
    ELSE Read(0, u, p, q, db.products[p].price, {}, 0)

CreatePurchaseRead(db, u, p, q) ==
    IF p \notin DOMAIN db.products
    THEN Read(404, u, p, q, 0, {}, 0)
    ELSE
      LET open == OpenOrderIds(db.orders, u)
      IN  IF Cardinality(open) > 1
          THEN Read(409, u, p, q, db.products[p].price, open, 0)
          ELSE Read(0, u, p, q, db.products[p].price, open,
                    IF open = {} THEN 0
                    ELSE db.orders[CHOOSE x \in open : TRUE].total_amount)

\* (variant) the try block looks the user's open orders up again
CreatePurchaseWriteRereads(db, rd, hit) ==
    LET total == LineTotal(rd.price, rd.quantity)
        open == OpenOrderIds(db.orders, rd.user_id)
    IN  IF open = {}
        THEN Outcome(200, TRUE,
                     NewOrderWithLine(db, rd.user_id, rd.product_id,
                                      rd.quantity, total))
        ELSE
          LET o == CHOOSE x \in open : TRUE
          IN  Outcome(200, TRUE,
                      AppendLine(db, o, rd.user_id, rd.product_id,
                                 rd.quantity, total, db.orders[o].total_amount))

\* session.commit() raises IntegrityError: order.user_id and
\* purchase.user_id are foreign keys to user.id
ForeignKeyViolated(db, u) == u \notin 1..Len(db.users)

\* the largest value of an INTEGER column, as purchase.quantity is
IntegerMax == 2147483647

\* session.commit() raises DataError: a line that holds old (>= 0) and gets
\* add more would hold more than the column takes
QuantityOutOfRange(old, add) == add > IntegerMax - old

\* (variant) a commit that failed on the foreign key leaves the order behind
CreatePurchaseWriteNoRollback(db, rd, hit) ==
    LET total == LineTotal(rd.price, rd.quantity)
    IN  IF rd.open = {}
        THEN Outcome(IF ForeignKeyViolated(db, rd.user_id) THEN 422 ELSE 200,
                     TRUE,
                     NewOrderWithLine(db, rd.user_id, rd.product_id,
                                      rd.quantity, total))
        ELSE
          LET o == CHOOSE x \in rd.open : TRUE
          IN  IF LinesFor(db.orders[o], rd.product_id) # {}
              THEN IF QuantityOutOfRange(hit.quantity, rd.quantity)
                   THEN Outcome(422, FALSE, db)
                   ELSE Outcome(200, TRUE,
                                RepriceLine(db, o, hit,
                                            hit.quantity + rd.quantity,
                                            rd.price, rd.order_total))
              ELSE Outcome(200, TRUE,
                           AppendLine(db, o, rd.user_id, rd.product_id,
                                      rd.quantity, total, rd.order_total))

\* (variant) a product is appended to the open order also when the order
\* has a line for it
CreatePurchaseWriteAlwaysAppends(db, rd, hit) ==
    LET total == LineTotal(rd.price, rd.quantity)
    IN  IF rd.open = {}
        THEN IF ForeignKeyViolated(db, rd.user_id)
             THEN Outcome(422, FALSE, db)
             ELSE Outcome(200, TRUE,
                          NewOrderWithLine(db, rd.user_id, rd.product_id,
                                           rd.quantity, total))
        ELSE Outcome(200, TRUE,
                     AppendLine(db, CHOOSE x \in rd.open : TRUE, rd.user_id,
                                rd.product_id, rd.quantity, total,
                                rd.order_total))

\* the try block of create_purchase, run on the tables db with what was
\* read before; hit is the line at which the loop over order.purchases stops
\* when the product is already in the order.  When the commit raises, the
\* handler rolls the session back and answers 422.
CreatePurchaseWrite(db, rd, hit) ==
    LET total == LineTotal(rd.price, rd.quantity)
    IN  IF rd.open = {}
        THEN IF ForeignKeyViolated(db, rd.user_id)
             THEN Outcome(422, FALSE, db)
             ELSE Outcome(200, TRUE,
                          NewOrderWithLine(db, rd.user_id, rd.product_id,
                                           rd.quantity, total))
        ELSE
          LET o == CHOOSE x \in rd.open : TRUE
          IN  IF LinesFor(db.orders[o], rd.product_id) # {}
              THEN IF QuantityOutOfRange(hit.quantity, rd.quantity)
                   THEN Outcome(422, FALSE, db)
                   ELSE Outcome(200, TRUE,
                                RepriceLine(db, o, hit,
                                            hit.quantity + rd.quantity,
                                            rd.price, rd.order_total))
              ELSE Outcome(200, TRUE,
                           AppendLine(db, o, rd.user_id, rd.product_id,
                                      rd.quantity, total, rd.order_total))

\* the whole handler, with no other request in between
CreatePurchase(db, u, p, q, hit) ==
    LET rd == CreatePurchaseRead(db, u, p, q)
    IN  IF rd.status # 0
        THEN Outcome(rd.status, FALSE, db)
        ELSE CreatePurchaseWrite(db, rd, hit)

\* ---- BuyCRUD.update_purchase_quantity (update_quantity) ------------------

\* (variant) the order total is reduced by the line priced at today's price
DeleteLineAtCurrentPrice(db, o, line) ==
    [db EXCEPT
        !.orders[o].total_amount =
            @ - LineTotal(db.products[line.product_id].price, line.quantity),
        !.orders[o].purchases = @ (-) OneLine(line)]

\* (variant) deleting the last line of an order also closes the order
DeleteLineClosesEmpty(db, o, line) ==
    [db EXCEPT
        !.orders[o].total_amount = @ - line.total_amount,
        !.orders[o].purchases = @ (-) OneLine(line),
        !.orders[o].checked_out = (BagCardinality(db.orders[o].purchases) = 1)]

\* the line's quantity fell to zero or below: the line is deleted and the
\* order total is reduced by the line's stored total
DeleteLine(db, o, line) ==
    [db EXCEPT
        !.orders[o].total_amount = @ - line.total_amount,
        !.orders[o].purchases = @ (-) OneLine(line)]

\* (variant) several open orders are answered like none
UpdatePurchaseQuantityNoConflict(db, u, p, d, hit) ==
    IF d = 0
    THEN Outcome(400, FALSE, db)
    ELSE
      LET open == OpenOrderIds(db.orders, u)
      IN  IF Cardinality(open) # 1
          THEN Outcome(404, FALSE, db)
          ELSE
            LET o == CHOOSE x \in open : TRUE
            IN  IF LinesFor(db.orders[o], p) = {}
                THEN Outcome(404, FALSE, db)
                ELSE IF hit.quantity + d <= 0
                THEN Outcome(200, TRUE, DeleteLine(db, o, hit))
                ELSE Outcome(200, TRUE,
                             RepriceLine(db, o, hit, hit.quantity + d,
                                         db.products[p].price,
                                         db.orders[o].total_amount))

UpdatePurchaseQuantity(db, u, p, d, hit) ==
    IF d = 0
    THEN Outcome(400, FALSE, db)
    ELSE
      LET open == OpenOrderIds(db.orders, u)
      IN  IF Cardinality(open) > 1
          THEN Outcome(409, FALSE, db)
          ELSE IF open = {}
          THEN Outcome(404, FALSE, db)
          ELSE
            LET o == CHOOSE x \in open : TRUE
            IN  IF LinesFor(db.orders[o], p) = {}
                THEN Outcome(404, FALSE, db)
                ELSE IF hit.quantity + d <= 0
                THEN Outcome(200, TRUE, DeleteLine(db, o, hit))
                ELSE Outcome(200, TRUE,
                             RepriceLine(db, o, hit, hit.quantity + d,
                                         db.products[p].price,
                                         db.orders[o].total_amount))

\* ---- delete_purchase (remove_from_cart) ----------------------------------

\* select(Purchase).where(Purchase.product_id == p, Purchase.user_id == u):
\* the user's lines for the product, in whichever order the line is
PurchasesOf(O, u, p) ==
    UNION {{l \in BagToSet(O[o].purchases) :
               l.user_id = u /\ l.product_id = p} : o \in 1..Len(O)}

\* the rows .first() may return for that query, which has no ORDER BY;
\* NoLine when the query has no row
FirstPurchase(db, u, p) ==
    IF PurchasesOf(db.orders, u, p) = {}
    THEN {NoLine} ELSE PurchasesOf(db.orders, u, p)

\* (variant) the row the query found is deleted, in whichever order it is
DeletePurchaseFoundRow(db, u, p, first, hit) ==
    IF first = NoLine
    THEN Outcome(404, FALSE, db)
    ELSE Outcome(200, TRUE,
                 [db EXCEPT
                     !.orders =
                         [o \in 1..Len(db.orders) |->
                             IF first \in BagToSet(db.orders[o].purchases)
                             THEN [db.orders[o] EXCEPT
                                      !.purchases = @ (-) OneLine(first),
                                      !.total_amount = @ - first.total_amount]
                             ELSE db.orders[o]]])

\* first is the row .first() returned
DeletePurchase(db, u, p, first, hit) ==
    IF first = NoLine
    THEN Outcome(404, FALSE, db)
    ELSE UpdatePurchaseQuantity(db, u, p, (-1) * first.quantity, hit)

\* ---- BuyCRUD.checkout ----------------------------------------------------

\* (variant) the loop takes one unit per line instead of the line's quantity
RECURSIVE CheckoutLinesOneEach(_, _, _, _)
CheckoutLinesOneEach(sess, o, lines, i) ==
    IF i > Len(lines)
    THEN Outcome(200, TRUE, sess)
    ELSE
      LET line == lines[i]
          marked == [sess EXCEPT
                        !.orders[o].purchases =
                            (@ (-) OneLine(line))
                            (+) OneLine([line EXCEPT !.status = PURCHASED])]
      IN  IF marked.products[line.product_id].quantity < line.quantity
          THEN Outcome(400, FALSE, marked)
          ELSE CheckoutLinesOneEach(
                   [marked EXCEPT !.products[line.product_id].quantity = @ - 1],
                   o, lines, i + 1)

\* (variant) the loop does not compare the line with what is on hand
RECURSIVE CheckoutLinesOversells(_, _, _, _)
CheckoutLinesOversells(sess, o, lines, i) ==
    IF i > Len(lines)
    THEN Outcome(200, TRUE, sess)
    ELSE
      LET line == lines[i]
          marked == [sess EXCEPT
                        !.orders[o].purchases =
                            (@ (-) OneLine(line))
                            (+) OneLine([line EXCEPT !.status = PURCHASED])]
      IN  CheckoutLinesOversells(
              [marked EXCEPT
                  !.products[line.product_id].quantity = @ - line.quantity],
              o, lines, i + 1)

\* the loop over order.purchases, loaded as the sequence lines, from
\* position i on.  The loop stops at the first line whose product has less
\* on hand than the line needs.
RECURSIVE CheckoutLines(_, _, _, _)
CheckoutLines(sess, o, lines, i) ==
    IF i > Len(lines)
    THEN Outcome(200, TRUE, sess)
    ELSE
      LET line == lines[i]
          marked == [sess EXCEPT
                        !.orders[o].purchases =
                            (@ (-) OneLine(line))
                            (+) OneLine([line EXCEPT !.status = PURCHASED])]
      IN  IF marked.products[line.product_id].quantity < line.quantity
          THEN Outcome(400, FALSE, marked)
          ELSE CheckoutLines(
                   [marked EXCEPT
                       !.products[line.product_id].quantity = @ - line.quantity],
                   o, lines, i + 1)

\* (variant) an order without lines is not checked out
CheckoutNeedsLines(db, u, first, lines) ==
    IF first = 0 \/ lines = <<>>
    THEN Outcome(404, FALSE, db)
    ELSE CheckoutLines([db EXCEPT !.orders[first].checked_out = TRUE],
                       first, lines, 1)

\* (variant) every open order of the user is flagged as checked out
CheckoutClosesAllOpen(db, u, first, lines) ==
    IF first = 0
    THEN Outcome(404, FALSE, db)
    ELSE CheckoutLines(
             [db EXCEPT
                 !.orders =
                     [o \in 1..Len(db.orders) |->
                         IF db.orders[o].user_id = u
                         THEN [db.orders[o] EXCEPT !.checked_out = TRUE]
                         ELSE db.orders[o]]],
             first, lines, 1)

\* first is the open order .first() returned (0 when the user has none),
\* lines its order.purchases as loaded
Checkout(db, u, first, lines) ==
    IF first = 0
    THEN Outcome(404, FALSE, db)
    ELSE CheckoutLines([db EXCEPT !.orders[first].checked_out = TRUE],
                       first, lines, 1)

\* ---- product update and delete (PUT and DELETE /product/{id}) ------------
\* created_at of a row: the time the row was inserted, or the time of a later
\* request
Created == "at creation"
Now == "at the request"

\* The route builds a Product from the request body.  A table model is built
\* without validation, and every field the body leaves out and the model has
\* a default for takes that default: is_active True, created_at
\* datetime.now().  (id is overwritten with the path's id by CRUD.update,
\* image_url defaults to None and required fields that are left out are not
\* set: none of them reaches the row.)
ProductDefaults == [is_active |-> TRUE, created_at |-> Now]

\* as_dict: product.model_dump() of the object built from body
AsDict(body) ==
    [k \in DOMAIN body \cup DOMAIN ProductDefaults |->
        IF k \in DOMAIN body THEN body[k] ELSE ProductDefaults[k]]

\* for key, value in data.items(): if value is not None: setattr(...)
SetFields(row, data) ==
    [k \in DOMAIN row |-> IF k \in DOMAIN data THEN data[k] ELSE row[k]]

\* CRUD.update of product.py
ProductUpdate(db, p, data) ==
    IF p \notin DOMAIN db.products
    THEN Outcome(404, FALSE, db)
    ELSE Outcome(200, TRUE, [db EXCEPT !.products[p] = SetFields(@, data)])

\* the route update_product
UpdateProduct(db, p, body) == ProductUpdate(db, p, AsDict(body))

UpdateProductPrice(db, p, price) == UpdateProduct(db, p, [price |-> price])

\* the purchase rows whose product_id points to product p
ReferencesTo(db, p) ==
    UNION {LinesFor(db.orders[o], p) : o \in 1..Len(db.orders)}

\* the products table without the row p
WithoutProduct(db, p) ==
    [db EXCEPT !.products = [x \in (DOMAIN @) \ {p} |-> @[x]]]

\* (variant) the row is deleted whatever points to it
DeleteIgnoresReferences(db, p) ==
    IF p \notin DOMAIN db.products
    THEN Outcome(404, FALSE, db)
    ELSE Outcome(200, TRUE, WithoutProduct(db, p))

\* BaseCRUD.delete, as delete_product calls it: the commit fails on the
\* foreign key purchase.product_id while a purchase row points to the product
Delete(db, p) ==
    IF p \notin DOMAIN db.products
    THEN Outcome(404, FALSE, db)
    ELSE IF ReferencesTo(db, p) # {}
    THEN Outcome(409, FALSE, WithoutProduct(db, p))
    ELSE Outcome(200, TRUE, WithoutProduct(db, p))

\* ---- users (routes/user.py) ----------------------------------------------
ACTIVE == "Active"
DEACTIVATED == "Deactivated"
MARKED_FOR_DELETION == "Marked for deletion"
TEST == "Test"
NO_LONGER_IN_STOCK == "No longer in stock"
ConditionEnum ==
    {ACTIVE, DEACTIVATED, MARKED_FOR_DELETION, TEST, NO_LONGER_IN_STOCK}

\* a condition string that is no label of condition_enum
NotACondition == "Paused"

Emails == {"ann@example.com", "bob@example.com"}
Cities == {"Oslo", "Rome"}
\* a phone number that matches ^\+?[1-9]\d{1,14}$ and one that does not
E164Phone == "+4712345678"
BadPhone == "1xasfd"
\* phone_number of a row that has none
NULL == "NULL"

\* _validate_phone_number and the constraint valid_phone_number
ValidPhone(phone) == phone = NULL \/ phone = E164Phone

\* the key of a request path: int(email_or_id) succeeds, or it does not
ById(id) == [id |-> id]
ByEmail(email) == [email |-> email]

\* select(User).where(id == ...) or .where(email == ...): the ids found
UserIdsFor(U, key) ==
    IF "id" \in DOMAIN key
    THEN {i \in 1..Len(U) : i = key.id}
    ELSE {i \in 1..Len(U) : U[i].email = key.email}

\* the commit of a changed or new row i fails: the email is another row's
\* (unique) or the phone number breaks the check constraint
IntegrityError(U, i, row) ==
    \/ \E j \in 1..Len(U) : j # i /\ U[j].email = row.email
    \/ ~ValidPhone(row.phone_number)

\* the commit fails because condition is no label of the enum column
DataError(row) == row.condition \notin ConditionEnum

\* (variant) the key condition of the data is left alone
UserUpdateSkipsCondition(db, key, data) ==
    IF UserIdsFor(db.users, key) = {}
    THEN Outcome(404, FALSE, db)
    ELSE
      LET i == CHOOSE x \in UserIdsFor(db.users, key) : TRUE
          row == [SetFields(db.users[i], data) EXCEPT
                     !.condition = db.users[i].condition]
          sess == [db EXCEPT !.users[i] = row]
      IN  IF IntegrityError(db.users, i, row) \/ DataError(row)
          THEN Outcome(422, FALSE, sess)
          ELSE Outcome(200, TRUE, sess)

\* CRUD.update of user.py
UserUpdate(db, key, data) ==
    IF UserIdsFor(db.users, key) = {}
    THEN Outcome(404, FALSE, db)
    ELSE
      LET i == CHOOSE x \in UserIdsFor(db.users, key) : TRUE
          row == SetFields(db.users[i], data)
          sess == [db EXCEPT !.users[i] = row]
      IN  IF IntegrityError(db.users, i, row) \/ DataError(row)
          THEN Outcome(422, FALSE, sess)
          ELSE Outcome(200, TRUE, sess)

\* the body without the keys in drop: model_dump(exclude=...)
Exclude(body, drop) == [k \in (DOMAIN body) \ drop |-> body[k]]

\* the row CRUD.create inserts for a body: condition is forced to Active,
\* phone_number defaults to None
NewUser(body) ==
    [email |-> body.email, city |-> body.city, condition |-> ACTIVE,
     phone_number |-> IF "phone_number" \in DOMAIN body
                      THEN body.phone_number ELSE NULL]

\* CRUD.create of user.py
UserCreate(db, body) ==
    IF "phone_number" \in DOMAIN body /\ ~ValidPhone(body.phone_number)
    THEN Outcome(422, FALSE, db)
    ELSE Outcome(200, TRUE, [db EXCEPT !.users = Append(@, NewUser(body))])

\* (variant) a deactivated user is reactivated as the row stands
CreateUserKeepsProfile(db, body) ==
    LET found == UserIdsFor(db.users, ByEmail(body.email))
    IN  IF found # {}
        THEN LET i == CHOOSE x \in found : TRUE
             IN  IF db.users[i].condition = DEACTIVATED
                 THEN UserUpdate(db, ById(i), [condition |-> ACTIVE])
                 ELSE Outcome(422, FALSE, db)
        ELSE UserCreate(db, body)

\* (variant) an existing user of any condition is reactivated
CreateUserAnyCondition(db, body) ==
    LET found == UserIdsFor(db.users, ByEmail(body.email))
    IN  IF found # {}
        THEN LET i == CHOOSE x \in found : TRUE
             IN  UserUpdate(db, ById(i),
                            Exclude(body, {"id", "email", "condition"})
                               @@ [condition |-> ACTIVE])
        ELSE UserCreate(db, body)

\* the route create_user
CreateUser(db, body) ==
    LET found == UserIdsFor(db.users, ByEmail(body.email))
    IN  IF found # {}
        THEN LET i == CHOOSE x \in found : TRUE
             IN  IF db.users[i].condition = DEACTIVATED
                 THEN UserUpdate(db, ById(i),
                                 Exclude(body, {"id", "email", "condition"})
                                    @@ [condition |-> ACTIVE])
                 ELSE Outcome(422, FALSE, db)
        ELSE UserCreate(db, body)

\* the routes deactivate_user and mark_user_for_deletion
DeactivateUser(db, id) == UserUpdate(db, ById(id), [condition |-> DEACTIVATED])
MarkUserForDeletion(db, id) ==
    UserUpdate(db, ById(id), [condition |-> MARKED_FOR_DELETION])

\* ---- user allergies (CRUD.add_allergy, CRUD.delete_allergy) --------------
\* the rows of the allergy table, and a name that is no row of it
KnownAllergies == {"Peanuts"}
UnknownAllergy == "Gluten"
\* descriptions of allergy rows
Descriptions == {"mild", "severe"}

\* select(Allergy).where(Allergy.name == name) finds a row for these names
AllergyNames(db) == {a.name : a \in db.allergy}

Link(id, name) == SetToBag({<<id, name>>})

\* (variant) an allergy the user already has is added once more
AddAllergyAgain(db, id, name) ==
    IF name \notin AllergyNames(db)
    THEN Outcome(404, FALSE, db)
    ELSE IF id \notin 1..Len(db.users)
    THEN Outcome(404, FALSE, db)
    ELSE Outcome(200, TRUE, [db EXCEPT !.user_allergy = @ (+) Link(id, name)])

AddAllergy(db, id, name) ==
    IF name \notin AllergyNames(db)
    THEN Outcome(404, FALSE, db)
    ELSE IF id \notin 1..Len(db.users)
    THEN Outcome(404, FALSE, db)
    ELSE IF BagIn(<<id, name>>, db.user_allergy)
    THEN Outcome(409, FALSE, db)
    ELSE Outcome(200, TRUE, [db EXCEPT !.user_allergy = @ (+) Link(id, name)])

DeleteAllergy(db, id, name) ==
    IF name \notin AllergyNames(db)
    THEN Outcome(404, FALSE, db)
    ELSE IF id \notin 1..Len(db.users)
    THEN Outcome(404, FALSE, db)
    ELSE IF ~BagIn(<<id, name>>, db.user_allergy)
    THEN Outcome(404, FALSE, db)
    ELSE Outcome(200, TRUE, [db EXCEPT !.user_allergy = @ (-) Link(id, name)])

\* ---- BaseCRUD.create (POST /allergy, /interest, /dislike) ----------------
\* session.add(record): the record is pending in the handler's session
Insert(db, table, row) ==
    IF table = "allergy"
    THEN [db EXCEPT !.allergy = @ \cup {row}]
    ELSE [db EXCEPT ![table] = Append(@, row)]

\* session.commit() raises IntegrityError: allergy.name is the primary key
\* of its table, interest.user_id and dislike.user_id are foreign keys to
\* user.id
ConstraintViolated(db, table, row) ==
    IF table = "allergy"
    THEN row.name \in AllergyNames(db)
    ELSE row.user_id \notin 1..Len(db.users)

\* (variant) the record is stored whatever the constraints say
CreateUnchecked(db, table, row) ==
    Outcome(200, TRUE, Insert(db, table, row))

\* BaseCRUD.create
Create(db, table, row) ==
    IF ConstraintViolated(db, table, row)
    THEN Outcome(422, FALSE, Insert(db, table, row))
    ELSE Outcome(200, TRUE, Insert(db, table, row))

\* ---- CRUD.get_multiple of interest.py and of dislike.py ------------------
\* the answer of a GET: the HTTP status and the rows of the body
Listing(status, rows) == [status |-> status, rows |-> rows]

\* the row at position i of table T, as the response carries it
RowAt(T, i) == [id |-> i, user_id |-> T[i].user_id, name |-> T[i].name]

\* (variant) BaseCRUD.get_multiple: all rows of the table, for any user
GetMultipleOfAll(T, user_id) ==
    Listing(200, {RowAt(T, i) : i \in 1..Len(T)})

\* T is the interest table or the dislike table
GetMultiple(T, user_id) ==
    LET result == {RowAt(T, i) : i \in {j \in 1..Len(T) : T[j].user_id = user_id}}
    IN  IF result = {}
        THEN Listing(404, {})
        ELSE Listing(200, result)

\* ---- the routes: every outcome a request may have on the tables db -------

AddOutcomes(db, u, p, q) ==
    {CreatePurchase(db, u, p, q, hit) : hit \in Hits(db, u, p)}

UpdateOutcomes(db, u, p, d) ==
    {UpdatePurchaseQuantity(db, u, p, d, hit) : hit \in Hits(db, u, p)}

RemoveOutcomes(db, u, p) ==
    {DeletePurchase(db, u, p, x[1], x[2]) :
        x \in FirstPurchase(db, u, p) \X Hits(db, u, p)}

CheckoutOutcomes(db, u) ==
    IF OpenOrderIds(db.orders, u) = {}
    THEN {Checkout(db, u, 0, <<>>)}
    ELSE UNION {{Checkout(db, u, first, lines) :
                    lines \in Loadings(db.orders[first].purchases)} :
                first \in OpenOrderIds(db.orders, u)}

\* ---- the state machine ---------------------------------------------------

\* all lines of all orders, and the number of purchase rows
AllLines(O) == UNION {BagToSet(O[o].purchases) : o \in 1..Len(O)}

RECURSIVE NumLines(_, _)
NumLines(O, n) ==
    IF n = 0 THEN 0 ELSE BagCardinality(O[n].purchases) + NumLines(O, n - 1)

\* what the model keeps of the last request: the operation, the HTTP status
\* of its response, and by how much it changed the number of order rows, of
\* purchase rows and of user rows
Response(op, status, before, after) ==
    [op |-> op, status |-> status,
     users |-> Len(after.users) - Len(before.users),
     orders |-> Len(after.orders) - Len(before.orders),
     lines |-> NumLines(after.orders, Len(after.orders))
               - NumLines(before.orders, Len(before.orders))]

\* the model's bounds on the tables
Bounded(db) ==
    /\ Len(db.orders) + NumLines(db.orders, Len(db.orders)) <= MaxRows
    /\ \A l \in AllLines(db.orders) : l.quantity \in LineQtys
    /\ Len(db.users) <= MaxUsers
    /\ Len(db.interest) <= MaxPrefs
    /\ Len(db.dislike) <= MaxPrefs

\* a request ends: the tables become what the request left behind
Finish(op, r) ==
    LET after == AfterRequest(DB, r)
    IN  /\ Bounded(after)
        /\ products' = after.products
        /\ orders' = after.orders
        /\ users' = after.users
        /\ user_allergy' = after.user_allergy
        /\ allergy' = after.allergy
        /\ interest' = after.interest
        /\ dislike' = after.dislike
        /\ resp' = Response(op, r.status, DB, after)

Idle == [pc |-> "idle", rd |-> Read(0, 0, NoProduct, 0, 0, {}, 0),
         during |-> {}]

\* Product.quantity of the seeded products
InitialStock == [p \in ProductIds |-> IF p = "p1" THEN 2 ELSE 1]

\* the tables with the seeded products and allergies and the user rows U
Tables(U) ==
    /\ products = [p \in ProductIds |->
                      IF p = "p1"
                      THEN [price |-> 125, quantity |-> InitialStock[p],
                            is_active |-> TRUE, created_at |-> Created]
                      ELSE [price |-> 1000, quantity |-> InitialStock[p],
                            is_active |-> FALSE, created_at |-> Created]]
    /\ orders = <<>>
    /\ users = U
    /\ user_allergy = EmptyBag
    /\ allergy = {[name |-> n, description |-> "mild"] : n \in KnownAllergies}
    /\ interest = <<>>
    /\ dislike = <<>>
    /\ resp = [op |-> "none", status |-> 0, users |-> 0, orders |-> 0,
               lines |-> 0]
    /\ reqs = [s \in Sessions |-> Idle]

\* nobody has registered yet
Init == Tables(<<>>)

\* the user rows of the shoppers: the ids in Users are theirs
Shoppers ==
    <<[email |-> "ann@example.com", city |-> "Oslo", condition |-> ACTIVE,
       phone_number |-> NULL],
      [email |-> "bob@example.com", city |-> "Oslo", condition |-> ACTIVE,
       phone_number |-> NULL]>>

\* the shoppers have registered
InitShop == Tables(Shoppers)

AddToCart(u, p, q) ==
    /\ \E r \in AddOutcomes(DB, u, p, q) : Finish("add_to_cart", r)
    /\ UNCHANGED reqs

UpdateQuantity(u, p, d) ==
    /\ \E r \in UpdateOutcomes(DB, u, p, d) : Finish("update_quantity", r)
    /\ UNCHANGED reqs

RemoveFromCart(u, p) ==
    /\ \E r \in RemoveOutcomes(DB, u, p) : Finish("remove_from_cart", r)
    /\ UNCHANGED reqs

\* add_to_cart of as many pieces as an INTEGER holds, of a product the
\* user's cart holds already
AddTooMany(u, p) ==
    /\ \A hit \in Hits(DB, u, p) : hit # NoLine /\ hit.quantity >= 1
    /\ AddToCart(u, p, IntegerMax)

CheckoutOrder(u) ==
    /\ \E r \in CheckoutOutcomes(DB, u) : Finish("checkout", r)
    /\ UNCHANGED reqs

ChangePrice(p, price) ==
    /\ price # products[p].price
    /\ Finish("update_product", UpdateProductPrice(DB, p, price))
    /\ UNCHANGED reqs

\* one request at a time, each run from its first statement to its last,
\* at the catalogue's initial prices
Next ==
    \/ \E u \in Users, p \in ProductIds, q \in AddQtys : AddToCart(u, p, q)
    \/ \E u \in Users : AddToCart(u, NoProduct, 1)
    \/ \E u \in Users, p \in ProductIds, d \in Deltas :
          UpdateQuantity(u, p, d)
    \/ \E u \in Users, p \in ProductIds : RemoveFromCart(u, p)
    \/ \E u \in Users : CheckoutOrder(u)

Spec == InitShop /\ [][Next]_vars

\* the requests of one user, among them the ones the store refuses: a user_id
\* no user row has, a quantity the INTEGER column cannot hold
NextStore ==
    \/ \E p \in ProductIds, q \in AddQtys : AddToCart(Shopper, p, q)
    \/ \E p \in ProductIds, q \in AddQtys : AddToCart(NoUser, p, q)
    \/ \E p \in ProductIds : AddTooMany(Shopper, p)
    \/ \E p \in ProductIds, d \in Deltas : UpdateQuantity(Shopper, p, d)
    \/ \E p \in ProductIds : RemoveFromCart(Shopper, p)
    \/ CheckoutOrder(Shopper)

SpecStore == InitShop /\ [][NextStore]_vars

\* the requests of one user, between which the catalogue changes prices
NextPrice ==
    \/ \E p \in ProductIds, q \in AddQtys : AddToCart(Shopper, p, q)
    \/ \E p \in ProductIds, d \in Deltas : UpdateQuantity(Shopper, p, d)
    \/ \E p \in ProductIds : RemoveFromCart(Shopper, p)
    \/ CheckoutOrder(Shopper)
    \/ \E p \in ProductIds : \E price \in Prices[p] : ChangePrice(p, price)

SpecPrice == InitShop /\ [][NextPrice]_vars

\* the requests of both users, between which the catalogue changes prices
NextShop ==
    \/ \E u \in Users, p \in ProductIds : AddToCart(u, p, 1)
    \/ \E u \in Users, p \in ProductIds, d \in {-1, 1} :
          UpdateQuantity(u, p, d)
    \/ \E u \in Users, p \in ProductIds : RemoveFromCart(u, p)
    \/ \E u \in Users : CheckoutOrder(u)
    \/ \E p \in ProductIds : \E price \in Prices[p] : ChangePrice(p, price)

SpecShop == InitShop /\ [][NextShop]_vars

\* ---- the catalogue changes while a shopper fills carts --------------------
\* request bodies of PUT /product/{id}
ProductBodies(p) ==
    {[price |-> x] : x \in Prices[p]} \cup {[is_active |-> b] : b \in BOOLEAN}

ChangeProduct(p, body) ==
    /\ Finish("update_product", UpdateProduct(DB, p, body))
    /\ UNCHANGED reqs

RemoveProduct(p) ==
    /\ Finish("delete_product", Delete(DB, p))
    /\ UNCHANGED reqs

NextCatalog ==
    \/ \E p \in ProductIds, q \in Positive : AddToCart(Shopper, p, q)
    \/ \E p \in ProductIds : RemoveFromCart(Shopper, p)
    \/ CheckoutOrder(Shopper)
    \/ \E p \in ProductIds : \E body \in ProductBodies(p) :
          ChangeProduct(p, body)
    \/ \E p \in ProductIds : RemoveProduct(p)

SpecCatalog == InitShop /\ [][NextCatalog]_vars

\* ---- the user routes ------------------------------------------------------
\* bodies of POST /user: email and city, with or without a phone number and
\* a condition
CreateBodies ==
    {[email |-> e, city |-> c] @@ ph @@ cond :
        e \in Emails, c \in Cities,
        ph \in {<<>>, [phone_number |-> E164Phone], [phone_number |-> BadPhone]},
        cond \in {<<>>, [condition |-> TEST]}}

\* bodies of PUT /user/{email_or_id}/profile: one field each
ProfileBodies ==
    {[city |-> c] : c \in Cities}
    \cup {[email |-> e] : e \in Emails}
    \cup {[phone_number |-> ph] : ph \in {E164Phone, BadPhone}}
    \cup {[condition |-> x] : x \in ConditionEnum \cup {NotACondition}}

\* the ids of requests: those of the rows the table may hold and one more
UserIds == 1..(MaxUsers + 1)
UserKeys == {ById(i) : i \in UserIds} \cup {ByEmail(e) : e \in Emails}

PostUser(body) ==
    /\ Finish("create_user", CreateUser(DB, body))
    /\ UNCHANGED reqs

PutProfile(key, body) ==
    /\ Finish("update_user", UserUpdate(DB, key, body))
    /\ UNCHANGED reqs

PutDeactivate(id) ==
    /\ Finish("deactivate_user", DeactivateUser(DB, id))
    /\ UNCHANGED reqs

PutDelete(id) ==
    /\ Finish("mark_user_for_deletion", MarkUserForDeletion(DB, id))
    /\ UNCHANGED reqs

PostAllergy(id, name) ==
    /\ Finish("add_allergy", AddAllergy(DB, id, name))
    /\ UNCHANGED reqs

DeleteUserAllergy(id, name) ==
    /\ Finish("delete_allergy", DeleteAllergy(DB, id, name))
    /\ UNCHANGED reqs

NextUser ==
    \/ \E body \in CreateBodies : PostUser(body)
    \/ \E key \in UserKeys, body \in ProfileBodies : PutProfile(key, body)
    \/ \E id \in UserIds : PutDeactivate(id)
    \/ \E id \in UserIds : PutDelete(id)
    \/ \E id \in UserIds, name \in KnownAllergies \cup {UnknownAllergy} :
          PostAllergy(id, name)
    \/ \E id \in UserIds, name \in KnownAllergies \cup {UnknownAllergy} :
          DeleteUserAllergy(id, name)

SpecUser == Init /\ [][NextUser]_vars

\* ---- allergies, interests and dislikes -----------------------------------
\* bodies of POST /user that carry an email and a city
Registrations ==
    {b \in CreateBodies : DOMAIN b = {"email", "city"} /\ b.city = "Oslo"}

\* bodies of POST /allergy
AllergyRows ==
    {[name |-> n, description |-> d] :
        n \in KnownAllergies \cup {UnknownAllergy}, d \in Descriptions}

\* bodies of POST /interest and of POST /dislike, name standing for
\* interest_name and for dislike_name
PrefRows == {[user_id |-> u, name |-> "chess"] : u \in UserIds}

CreateAllergy(row) ==
    /\ Finish("create_allergy", Create(DB, "allergy", row))
    /\ UNCHANGED reqs

CreateInterest(row) ==
    /\ Finish("create_interest", Create(DB, "interest", row))
    /\ UNCHANGED reqs

CreateDislike(row) ==
    /\ Finish("create_dislike", Create(DB, "dislike", row))
    /\ UNCHANGED reqs

\* a GET leaves the tables alone
GetInterests(user_id) ==
    /\ Finish("get_interests",
              Outcome(GetMultiple(interest, user_id).status, FALSE, DB))
    /\ UNCHANGED reqs

GetDislikes(user_id) ==
    /\ Finish("get_dislikes",
              Outcome(GetMultiple(dislike, user_id).status, FALSE, DB))
    /\ UNCHANGED reqs

NextPrefs ==
    \/ \E body \in Registrations : PostUser(body)
    \/ \E row \in AllergyRows : CreateAllergy(row)
    \/ \E row \in PrefRows : CreateInterest(row)
    \/ \E row \in PrefRows : CreateDislike(row)
    \/ \E id \in UserIds : GetInterests(id)
    \/ \E id \in UserIds : GetDislikes(id)

SpecPrefs == Init /\ [][NextPrefs]_vars

\* ---- add_to_cart requests in flight together ------------------------------
\* Each request has a database session of its own.  create_purchase first
\* reads the product and the user's open orders, and later, in its try
\* block, writes and commits; requests of other sessions may commit in
\* between.  What the session loaded when it read (the product's price, the
\* open order and its total) stays as loaded; order.purchases is loaded when
\* the try block walks it.

\* the requests in flight that have read and not yet committed
InFlight == {s \in Sessions : reqs[s].pc = "read"}

\* session s starts a request, the earlier request of s drops out of what
\* the others remember
Start(s, rd, pc) ==
    reqs' = [t \in Sessions |->
                IF t = s
                THEN [pc |-> pc, rd |-> rd, during |-> InFlight \ {s}]
                ELSE [reqs[t] EXCEPT !.during = @ \ {s}]]

\* lines 134-157 of a request of session s
AddRead(s, u, p, q) ==
    /\ reqs[s].pc # "read"
    /\ LET rd == CreatePurchaseRead(DB, u, p, q)
       IN  IF rd.status # 0
           THEN /\ Finish("add_to_cart", Outcome(rd.status, FALSE, DB))
                /\ Start(s, rd, "done")
           ELSE /\ Start(s, rd, "read")
                /\ UNCHANGED <<products, orders, users, user_allergy,
                               allergy, interest, dislike, resp>>

\* lines 158-187 of the request of session s
AddWrite(s) ==
    /\ reqs[s].pc = "read"
    /\ LET rd == reqs[s].rd
       IN  \E hit \in (IF rd.open = {} THEN {NoLine}
                       ELSE HitsIn(orders[CHOOSE x \in rd.open : TRUE],
                                   rd.product_id)) :
              Finish("add_to_cart", CreatePurchaseWrite(DB, rd, hit))
    /\ reqs' = [reqs EXCEPT ![s].pc = "done"]

NextRace ==
    \/ \E s \in Sessions, p \in ProductIds, q \in Positive :
          AddRead(s, Shopper, p, q)
    \/ \E s \in Sessions : AddRead(s, Shopper, NoProduct, 1)
    \/ \E s \in Sessions : AddWrite(s)

SpecRace == InitShop /\ [][NextRace]_vars

\* the same, with checkouts of the user between the steps of the requests
NextRaceCheckout ==
    \/ \E s \in Sessions, p \in ProductIds : AddRead(s, Shopper, p, 1)
    \/ \E s \in Sessions : AddWrite(s)
    \/ CheckoutOrder(Shopper)

SpecRaceCheckout == InitShop /\ [][NextRaceCheckout]_vars

\* ---- checkout requests in flight together ---------------------------------
\* checkout reads the open order, its purchases and, line by line, the
\* product of each line; it changes the objects of its session and writes
\* at session.commit(): UPDATE statements that set the changed columns of
\* the changed rows to the values the session computed.  Nothing is locked
\* when it is read, so another session may commit between the reads and the
\* commit.  Here all reads of a request happen in one step and all writes in
\* another; the requests that add to carts run when no checkout is in
\* flight.

\* the checkout requests that have read and not yet committed
Checking == {s \in Sessions : reqs[s].pc = "checking"}

\* what a checkout has loaded
Loaded(u, first, lines, seen) ==
    [user_id |-> u, first |-> first, lines |-> lines, seen |-> seen]

\* the flush at session.commit(): each order row and each product quantity
\* the session changed since it was loaded (seen) is written to the tables
\* as the session holds it (sess)
WriteBack(db, seen, sess) ==
    [db EXCEPT
        !.orders =
            [o \in 1..Len(db.orders) |->
                IF o <= Len(seen.orders) /\ sess.orders[o] # seen.orders[o]
                THEN sess.orders[o] ELSE db.orders[o]],
        !.products =
            [p \in DOMAIN db.products |->
                IF sess.products[p].quantity # seen.products[p].quantity
                THEN [db.products[p] EXCEPT
                         !.quantity = sess.products[p].quantity]
                ELSE db.products[p]]]

\* lines 309-317 and the loads of lines 322-325, of a request of session s
CheckoutRead(s, u) ==
    /\ reqs[s].pc # "checking"
    /\ IF OpenOrderIds(orders, u) = {}
       THEN /\ Finish("checkout", Checkout(DB, u, 0, <<>>))
            /\ reqs' = [t \in Sessions |->
                           IF t = s THEN Idle
                           ELSE [reqs[t] EXCEPT !.during = @ \ {s}]]
       ELSE /\ \E first \in OpenOrderIds(orders, u) :
               \E lines \in Loadings(orders[first].purchases) :
                  reqs' = [t \in Sessions |->
                              IF t = s
                              THEN [pc |-> "checking",
                                    rd |-> Loaded(u, first, lines, DB),
                                    during |-> Checking \ {s}]
                              ELSE [reqs[t] EXCEPT !.during = @ \ {s}]]
            /\ UNCHANGED <<products, orders, users, user_allergy,
                           allergy, interest, dislike, resp>>

\* lines 318-335 of the request of session s, on what it loaded
CheckoutCommit(s) ==
    /\ reqs[s].pc = "checking"
    /\ LET rd == reqs[s].rd
           r == Checkout(rd.seen, rd.user_id, rd.first, rd.lines)
       IN  IF r.status = 200
           THEN Finish("checkout",
                       Outcome(200, TRUE, WriteBack(DB, rd.seen, r.sess)))
           ELSE Finish("checkout", Outcome(r.status, FALSE, DB))
    /\ reqs' = [reqs EXCEPT ![s].pc = "checked"]

\* add_to_cart while no checkout is in flight
AddBetween(u, p, q) ==
    /\ Checking = {}
    /\ AddToCart(u, p, q)

NextCheckoutRace ==
    \/ \E u \in Users, p \in ProductIds, q \in Positive : AddBetween(u, p, q)
    \/ \E s \in Sessions, u \in Users : CheckoutRead(s, u)
    \/ \E s \in Sessions : CheckoutCommit(s)

SpecCheckoutRace == InitShop /\ [][NextCheckoutRace]_vars

\* ---- vocabulary of the properties ---------------------------------------

\* the open orders of user u, and the user's checked-out orders
OpenOf(u) ==
    {o \in 1..Len(orders) :
        orders[o].user_id = u /\ orders[o].checked_out = FALSE}

ClosedOf(u) ==
    {o \in 1..Len(orders) :
        orders[o].user_id = u /\ orders[o].checked_out = TRUE}

LinesOf(o) == BagToSet(orders[o].purchases)

\* on hand of the product of line l
OnHand(l) == products[l.product_id].quantity

Purchased(l) == [l EXCEPT !.status = PURCHASED]

\* the sum of the quantities of the lines of bag b that are for product p
RECURSIVE QtySum(_, _, _)
QtySum(S, b, p) ==
    IF S = {} THEN 0
    ELSE LET l == CHOOSE x \in S : TRUE
         IN  (IF l.product_id = p THEN l.quantity * CopiesIn(l, b) ELSE 0)
             + QtySum(S \ {l}, b, p)

QtyFor(b, p) == QtySum(BagToSet(b), b, p)

\* the sum of total_amount over the lines of bag b
RECURSIVE TotalSum(_, _)
TotalSum(S, b) ==
    IF S = {} THEN 0
    ELSE LET l == CHOOSE x \in S : TRUE
         IN  l.total_amount * CopiesIn(l, b) + TotalSum(S \ {l}, b)

TotalOf(b) == TotalSum(BagToSet(b), b)

\* the pieces of product p in lines with status Purchased, over the orders
\* 1..n
RECURSIVE Sold(_, _)
Sold(n, p) ==
    IF n = 0 THEN 0
    ELSE LET b == orders[n].purchases
             bought == {l \in BagToSet(b) : l.status = PURCHASED}
         IN  QtySum(bought, b, p) + Sold(n - 1, p)

\* ---- C1 ------------------------------------------------------------------
\* C1: with one request at a time, starting from no orders, every user has
\* at most one order with checked_out = false, whatever add_to_cart,
\* update_quantity, remove_from_cart and checkout calls succeeded or failed.
C1_AtMostOneOpenOrder ==
    \A u \in Users : Cardinality(OpenOf(u)) <= 1

\* a user who checked out before has a cart again: the last request was an
\* add_to_cart that created the order
C1_Witness ==
    /\ resp.op = "add_to_cart" /\ resp.status = 200 /\ resp.orders = 1
    /\ \E u \in Users : ClosedOf(u) # {} /\ OpenOf(u) # {}

\* ---- C2 ------------------------------------------------------------------
\* C2: checkout is all-or-nothing.  If some line of the user's open order
\* asks for more than its product has on hand, checkout answers 400 and the
\* tables afterwards are the tables before: no product quantity, no line
\* status and no checked_out flag differs, for whichever line the loop
\* reaches first.
C2_CheckoutAllOrNothing ==
    \A u \in Users : \A o \in OpenOf(u) :
        (\E l \in LinesOf(o) : l.quantity > OnHand(l))
        => \A r \in CheckoutOutcomes(DB, u) :
              r.status = 400 /\ AfterRequest(DB, r) = DB

\* a checkout has just failed on an order with a line that could be served
\* and a line that could not, and the order is still open and In cart
C2_Witness ==
    /\ resp.op = "checkout" /\ resp.status = 400
    /\ \E u \in Users : \E o \in OpenOf(u) : \E l1, l2 \in LinesOf(o) :
          /\ l1.quantity >= 1 /\ l1.quantity <= OnHand(l1)
          /\ l2.quantity > OnHand(l2)
          /\ l1.status = IN_CART /\ l2.status = IN_CART

\* ---- C3 ------------------------------------------------------------------
\* C3: a checkout that answers 200 sets checked_out of the user's open
\* order, sets the status of each of its lines to Purchased leaving line
\* quantities and totals as they were, takes from each product's on-hand
\* quantity exactly the quantity of the order's lines for it, and changes
\* nothing else.
C3_CheckoutSuccess ==
    \A u \in Users : \A r \in CheckoutOutcomes(DB, u) :
        r.status = 200
        => \E o \in OpenOf(u) :
              /\ AfterRequest(DB, r).orders =
                    [orders EXCEPT
                        ![o].checked_out = TRUE,
                        ![o].purchases = BagOfAll(Purchased, @)]
              /\ AfterRequest(DB, r).products =
                    [p \in ProductIds |->
                        [products[p] EXCEPT
                            !.quantity = @ - QtyFor(orders[o].purchases, p)]]

\* a checkout has just succeeded on an order with a line of quantity >= 1,
\* whose product has less on hand than at the start
C3_Witness ==
    /\ resp.op = "checkout" /\ resp.status = 200
    /\ \E u \in Users : \E o \in ClosedOf(u) : \E l \in LinesOf(o) :
          /\ l.quantity >= 1 /\ l.status = PURCHASED
          /\ l.product_id = "p1" /\ OnHand(l) < 2

\* ---- C4 ------------------------------------------------------------------
\* the requests of sessions s and t ran together: one read while the other
\* had read and not yet committed
Together(s, t) ==
    s # t /\ (t \in reqs[s].during \/ s \in reqs[t].during)

\* both requests are answered, were for user u and found no open order
BothSawNone(s, t, u) ==
    /\ reqs[s].pc = "done" /\ reqs[t].pc = "done"
    /\ reqs[s].rd.status = 0 /\ reqs[t].rd.status = 0
    /\ reqs[s].rd.user_id = u /\ reqs[t].rd.user_id = u
    /\ reqs[s].rd.open = {} /\ reqs[t].rd.open = {}

\* C4: when two add_to_cart requests of the same user have run together,
\* each reading the user's open orders before the other committed and each
\* finding none, each has created an order: the user has two open orders.
C4_ConcurrentAddsTwoOpenOrders ==
    \A s \in Sessions, t \in Sessions, u \in Users :
        (Together(s, t) /\ BothSawNone(s, t, u))
        => Cardinality(OpenOf(u)) >= 2

\* two such requests have committed and the user has two open orders of one
\* line each
C4_Witness ==
    \E s \in Sessions, t \in Sessions, u \in Users :
        /\ Together(s, t) /\ BothSawNone(s, t, u)
        /\ Cardinality(OpenOf(u)) = 2
        /\ \A o \in OpenOf(u) : BagCardinality(orders[o].purchases) = 1


\* ---- C5 ------------------------------------------------------------------
\* C5: checked_out goes from false to true only, and only in a checkout: a
\* closed order stays closed in every step, and a step that closes an order
\* is a checkout.
C5_ClosedOnlyByCheckout ==
    [][\A o \in 1..Len(orders) :
          /\ orders[o].checked_out => orders'[o].checked_out
          /\ (~orders[o].checked_out /\ orders'[o].checked_out)
                => resp'.op = "checkout"]_vars

\* a request other than checkout has succeeded while a closed order exists
C5_Witness ==
    /\ resp.op \in {"add_to_cart", "update_quantity", "remove_from_cart"}
    /\ resp.status = 200
    /\ \E u \in Users : ClosedOf(u) # {} /\ OpenOf(u) # {}

\* ---- C6 ------------------------------------------------------------------
\* total is price (thousandths) times quantity, to the nearest hundredth
IsPriceTimes(total, price, quantity) ==
    /\ 10 * total - price * quantity <= 5
    /\ price * quantity - 10 * total <= 5

\* C6: add_to_cart is additive on the quantity of a repeated product.  From
\* every reachable state, for positive a and b, adding a and then b of a
\* product leaves the tables exactly as one add of a + b does; the open
\* order then has one line for the product, whose quantity is what was in
\* the cart plus a + b and whose total is that quantity times the product's
\* current price.
C6_AddIsAdditive ==
    \A u \in Users, p \in ProductIds, a \in Positive, b \in Positive :
        \A r1 \in AddOutcomes(DB, u, p, a) :
        \A r2 \in AddOutcomes(AfterRequest(DB, r1), u, p, b) :
        \A r12 \in AddOutcomes(DB, u, p, a + b) :
            /\ r1.status = 200 /\ r2.status = 200 /\ r12.status = 200
            /\ AfterRequest(AfterRequest(DB, r1), r2) = AfterRequest(DB, r12)
            /\ \A o \in OpenOrderIds(r2.sess.orders, u) :
                  /\ BagCardinality(r2.sess.orders[o].purchases)
                        = Cardinality(BagToSet(r2.sess.orders[o].purchases))
                  /\ \E l \in BagToSet(r2.sess.orders[o].purchases) :
                        /\ l.product_id = p
                        /\ IsPriceTimes(l.total_amount, products[p].price,
                                        l.quantity)
                        /\ \A k \in BagToSet(r2.sess.orders[o].purchases) :
                              k.product_id = p => k = l
                        /\ \A o0 \in OpenOf(u) :
                              l.quantity = QtyFor(orders[o0].purchases, p) + a + b
                        /\ OpenOf(u) = {} => l.quantity = a + b

\* an add_to_cart has just raised an existing line to quantity 2 or more,
\* and the line is priced at the current price, which is not the initial one
C6_Witness ==
    /\ resp.op = "add_to_cart" /\ resp.status = 200
    /\ resp.orders = 0 /\ resp.lines = 0
    /\ products["p1"].price = 250
    /\ \E o \in OpenOf(Shopper) : \E l \in LinesOf(o) :
          /\ l.product_id = "p1" /\ l.quantity >= 2
          /\ l.total_amount = 50

\* ---- C7 ------------------------------------------------------------------
\* C7: update_quantity with a non-zero delta that brings a line of the open
\* order to quantity <= 0 answers 200, deletes that line and takes the
\* line's stored total off Order.total_amount; the other lines, the other
\* orders and the products are as before.
C7_UpdateToZeroDeletesLine ==
    \A u \in Users, p \in ProductIds, d \in Deltas \ {0} :
        \A o \in OpenOf(u) : \A l \in LinesOf(o) :
            (l.product_id = p /\ l.quantity + d <= 0)
            => \A r \in UpdateOutcomes(DB, u, p, d) :
                  /\ r.status = 200
                  /\ AfterRequest(DB, r) =
                        [DB EXCEPT
                            !.orders[o].purchases = @ (-) OneLine(l),
                            !.orders[o].total_amount = @ - l.total_amount]

\* an update_quantity has just deleted a line and another line is left in
\* the order, whose total is the order's total
C7_Witness ==
    /\ resp.op = "update_quantity" /\ resp.status = 200 /\ resp.lines = -1
    /\ \E o \in OpenOf(Shopper) : \E l \in LinesOf(o) :
          /\ BagCardinality(orders[o].purchases) = 1
          /\ l.quantity >= 1
          /\ orders[o].total_amount = l.total_amount

\* ---- C8 ------------------------------------------------------------------
\* C8 as claimed: after update_quantity has removed the only line of a
\* user's open order, a checkout for that user answers 404 and closes no
\* order.
C8_CheckoutAfterRemovalNotFound ==
    [][\A u \in Users :
          (/\ resp.op = "update_quantity" /\ resp.lines = -1
           /\ \E o \in OpenOf(u) : LinesOf(o) = {}
           /\ CheckoutOrder(u))
          => (resp'.status = 404 /\ orders' = orders)]_vars

\* C8 as amended: the order whose last line was removed is still the user's
\* open order, and a checkout for that user answers 200 and closes it,
\* changing nothing else; checkout answers 404 only for a user who has no
\* order with checked_out = false, and then changes nothing.
C8_CheckoutClosesEmptyOrder ==
    \A u \in Users : \A r \in CheckoutOutcomes(DB, u) :
        /\ OpenOf(u) = {} => (r.status = 404 /\ AfterRequest(DB, r) = DB)
        /\ \A o \in OpenOf(u) :
              LinesOf(o) = {}
              => /\ r.status = 200
                 /\ AfterRequest(DB, r) = [DB EXCEPT !.orders[o].checked_out = TRUE]

\* a checkout has just closed an order that has no lines
C8_Witness ==
    /\ resp.op = "checkout" /\ resp.status = 200
    /\ \E u \in Users : \E o \in ClosedOf(u) :
          LinesOf(o) = {} /\ orders[o].total_amount = 0

\* ---- C9 ------------------------------------------------------------------
\* C9 as claimed: every purchase row has quantity >= 1.
C9_LinesHaveQuantity ==
    \A l \in AllLines(orders) : l.quantity >= 1

\* ---- C10 -----------------------------------------------------------------
\* C10 as claimed, for carts whose lines all have quantity >= 1:
\* remove_from_cart(u, p) deletes the line for p of the user's open order
\* and takes its total off the order total whenever there is such a line,
\* whatever the user's checked-out orders hold, and answers 404 changing
\* nothing when there is none.
C10_RemoveDeletesOpenLine ==
    [][\A u \in Users, p \in ProductIds :
          (RemoveFromCart(u, p) /\ \A l \in AllLines(orders) : l.quantity >= 1)
          => IF \E o \in OpenOf(u) : \E l \in LinesOf(o) : l.product_id = p
             THEN \E o \in OpenOf(u) : \E l \in LinesOf(o) :
                     /\ l.product_id = p
                     /\ resp'.status = 200
                     /\ orders' = [orders EXCEPT
                                      ![o].purchases = @ (-) OneLine(l),
                                      ![o].total_amount = @ - l.total_amount]
             ELSE resp'.status = 404 /\ orders' = orders]_vars

\* ---- C11 -----------------------------------------------------------------
\* the request answered with this status and left the tables as they were
Refused(r, status) == r.status = status /\ AfterRequest(DB, r) = DB

\* user u has no line for product p in an open order
NotInCart(u, p) == \A o \in OpenOf(u) : LinesFor(orders[o], p) = {}

\* C11 as claimed: add_to_cart with an unknown product answers 404,
\* update_quantity with delta 0 answers 400, update_quantity without an open
\* order answers 404, update_quantity and remove_from_cart for a product
\* that is not in the cart answer 404, and each of them leaves orders,
\* lines and products as they were.
C11_FailedMutationChangesNothing ==
    \A u \in Users, p \in ProductIds :
        /\ \A q \in AddQtys : \A r \in AddOutcomes(DB, u, NoProduct, q) :
              Refused(r, 404)
        /\ \A r \in UpdateOutcomes(DB, u, p, 0) : Refused(r, 400)
        /\ NotInCart(u, p)
           => /\ \A d \in Deltas \ {0} : \A r \in UpdateOutcomes(DB, u, p, d) :
                    Refused(r, 404)
              /\ \A r \in RemoveOutcomes(DB, u, p) : Refused(r, 404)

\* ---- C12 -----------------------------------------------------------------
\* C12 as claimed: for a user with more than one open order every
\* add_to_cart and every update_quantity answers 409 and changes nothing.
C12_SeveralOpenAlwaysConflict ==
    \A u \in Users :
        Cardinality(OpenOf(u)) > 1
        => /\ \A p \in ProductIds \cup {NoProduct}, q \in AddQtys :
                 \A r \in AddOutcomes(DB, u, p, q) : Refused(r, 409)
           /\ \A p \in ProductIds, d \in Deltas :
                 \A r \in UpdateOutcomes(DB, u, p, d) : Refused(r, 409)

\* C12 as amended: for a user with more than one open order, add_to_cart
\* for a product that exists and update_quantity with a non-zero delta
\* answer 409 and change nothing; the checks that come before the
\* open-orders query still answer first, 404 for an unknown product and 400
\* for delta 0, and change nothing either.
C12_SeveralOpenConflict ==
    \A u \in Users :
        Cardinality(OpenOf(u)) > 1
        => /\ \A p \in ProductIds, q \in AddQtys :
                 \A r \in AddOutcomes(DB, u, p, q) : Refused(r, 409)
           /\ \A q \in AddQtys :
                 \A r \in AddOutcomes(DB, u, NoProduct, q) : Refused(r, 404)
           /\ \A p \in ProductIds, d \in Deltas \ {0} :
                 \A r \in UpdateOutcomes(DB, u, p, d) : Refused(r, 409)
           /\ \A p \in ProductIds :
                 \A r \in UpdateOutcomes(DB, u, p, 0) : Refused(r, 400)

\* an add_to_cart has just been answered 409 for a user who has two open
\* orders, both still as the earlier adds left them
C12_Witness ==
    /\ resp.op = "add_to_cart" /\ resp.status = 409
    /\ resp.orders = 0 /\ resp.lines = 0
    /\ Cardinality(OpenOf(Shopper)) = 2
    /\ \A o \in OpenOf(Shopper) : BagCardinality(orders[o].purchases) = 1

\* ---- C13 -----------------------------------------------------------------
\* the tables after line l of order o got quantity newq and was priced again
\* at today's price, the order total moving by the difference
Repriced(o, l, newq) ==
    LET newt == LineTotal(products[l.product_id].price, newq)
        newl == [l EXCEPT !.quantity = newq, !.total_amount = newt]
    IN  [DB EXCEPT
            !.orders[o].purchases = (@ (-) OneLine(l)) (+) OneLine(newl),
            !.orders[o].total_amount = @ + (newt - l.total_amount)]

\* C13: when add_to_cart hits a line of the open order, and when
\* update_quantity leaves a line with quantity > 0, the call answers 200,
\* the line's total becomes its new quantity times the product's price at
\* the time of the call, whatever price the line was created at, the order
\* total changes by new line total - old line total, and nothing else
\* changes.
C13_WholeLineRepriced ==
    \A u \in Users : \A o \in OpenOf(u) : \A l \in LinesOf(o) :
        /\ \A q \in AddQtys :
              \A r \in AddOutcomes(DB, u, l.product_id, q) :
                  /\ r.status = 200
                  /\ AfterRequest(DB, r) = Repriced(o, l, l.quantity + q)
        /\ \A d \in Deltas \ {0} :
              l.quantity + d > 0
              => \A r \in UpdateOutcomes(DB, u, l.product_id, d) :
                    /\ r.status = 200
                    /\ AfterRequest(DB, r) = Repriced(o, l, l.quantity + d)

\* an update_quantity has just lowered a line that was priced at 0.125 a
\* piece, and the line is now priced at 0.25 a piece
C13_Witness ==
    /\ resp.op = "update_quantity" /\ resp.status = 200 /\ resp.lines = 0
    /\ products["p1"].price = 250
    /\ \E o \in OpenOf(Shopper) : \E l \in LinesOf(o) :
          /\ l.product_id = "p1" /\ l.quantity = 1 /\ l.total_amount = 25
          /\ orders[o].total_amount = 25

\* ---- C14 -----------------------------------------------------------------
\* the rows of the user table with this email
RowsWith(U, email) == {i \in 1..Len(U) : U[i].email = email}

\* the bodies of POST /user whose phone number, if any, is well formed
GoodBodies ==
    {b \in CreateBodies :
        "phone_number" \in DOMAIN b => ValidPhone(b.phone_number)}

\* C14: POST /user for the email of a Deactivated row answers 200 and
\* reactivates that row: the row keeps its id and its email, its condition
\* becomes Active, its profile fields take the values the body supplies, no
\* row is inserted and no other row changes, so one row has that email.
C14_CreateReactivates ==
    \A i \in 1..Len(users) : \A body \in GoodBodies :
        (users[i].condition = DEACTIVATED /\ body.email = users[i].email)
        => LET r == CreateUser(DB, body)
               after == AfterRequest(DB, r)
           IN  /\ r.status = 200
               /\ after = [DB EXCEPT
                             !.users[i].condition = ACTIVE,
                             !.users[i].city = body.city,
                             !.users[i].phone_number =
                                 IF "phone_number" \in DOMAIN body
                                 THEN body.phone_number ELSE @]
               /\ Cardinality(RowsWith(after.users, body.email)) = 1

\* a create_user has just answered 200 without inserting a row, and the only
\* row of the table is Active, with a phone number
C14_Witness ==
    /\ resp.op = "create_user" /\ resp.status = 200 /\ resp.users = 0
    /\ Len(users) = 1
    /\ users[1].condition = ACTIVE
    /\ users[1].phone_number = E164Phone

\* ---- C15 -----------------------------------------------------------------
\* C15 as claimed: POST /user for the email of a row whose condition is not
\* Deactivated answers 409 and leaves the tables as they were.
C15_DuplicateIsConflict ==
    \A i \in 1..Len(users) : \A body \in CreateBodies :
        (users[i].condition # DEACTIVATED /\ body.email = users[i].email)
        => Refused(CreateUser(DB, body), 409)

\* C15 as amended: POST /user for the email of a row whose condition is
\* Active, Marked for deletion, Test or No longer in stock answers 422
\* ("... already exists and is active") and leaves the tables as they were.
C15_DuplicateIsUnprocessable ==
    \A i \in 1..Len(users) : \A body \in CreateBodies :
        (users[i].condition # DEACTIVATED /\ body.email = users[i].email)
        => Refused(CreateUser(DB, body), 422)

\* a create_user has just been answered 422 while every email is the email
\* of a row that is not Deactivated, one of them a Test user
C15_Witness ==
    /\ resp.op = "create_user" /\ resp.status = 422
    /\ \A e \in Emails : RowsWith(users, e) # {}
    /\ \A i \in 1..Len(users) : users[i].condition # DEACTIVATED
    /\ \E i \in 1..Len(users) : users[i].condition = TEST

\* ---- C16 -----------------------------------------------------------------
\* C16 as claimed: a profile update whose body carries a condition is
\* answered 422 for every user it finds and leaves the stored condition,
\* and all tables, as they were.
C16_ProfileUpdateRejectsCondition ==
    \A key \in UserKeys : \A x \in ConditionEnum \cup {NotACondition} :
        UserIdsFor(users, key) # {}
        => Refused(UserUpdate(DB, key, [condition |-> x]), 422)

\* ---- C17 -----------------------------------------------------------------
\* C17: deactivate and mark_for_deletion of a user id that is in the table
\* answer 200 and set that user's condition to Deactivated and to Marked
\* for deletion, every other field of the user, every other user and every
\* other table staying as they were; for an id that is not in the table
\* they answer 404 and change nothing.
C17_ConditionOnlyUpdates ==
    \A id \in UserIds :
        LET d == DeactivateUser(DB, id)
            m == MarkUserForDeletion(DB, id)
        IN  IF id \in 1..Len(users)
            THEN /\ d.status = 200 /\ m.status = 200
                 /\ AfterRequest(DB, d)
                       = [DB EXCEPT !.users[id].condition = DEACTIVATED]
                 /\ AfterRequest(DB, m)
                       = [DB EXCEPT !.users[id].condition = MARKED_FOR_DELETION]
            ELSE Refused(d, 404) /\ Refused(m, 404)

\* a user has just been marked for deletion; it has a phone number and the
\* other user is still Active
C17_Witness ==
    /\ resp.op = "mark_user_for_deletion" /\ resp.status = 200
    /\ Len(users) = 2
    /\ \E i \in 1..2 : \E j \in 1..2 :
          /\ users[i].condition = MARKED_FOR_DELETION
          /\ users[i].phone_number = E164Phone
          /\ users[j].condition = ACTIVE

\* ---- C18 -----------------------------------------------------------------
\* C18: add_allergy answers 404 when the allergy or the user is missing and
\* 409 when the user has the allergy; delete_allergy answers 404 when the
\* allergy, the user or the association is missing; every such answer
\* leaves the tables as they were.  No pair is associated twice, and an add
\* followed by a delete of the same pair gives back the tables from before
\* the add.
C18_AllergyAssociations ==
    /\ \A x \in BagToSet(user_allergy) : CopiesIn(x, user_allergy) = 1
    /\ \A id \in UserIds, name \in KnownAllergies \cup {UnknownAllergy} :
          LET a == AddAllergy(DB, id, name)
              d == DeleteAllergy(DB, id, name)
              missing == name \notin AllergyNames(DB) \/ id \notin 1..Len(users)
              linked == BagIn(<<id, name>>, user_allergy)
          IN  /\ missing => Refused(a, 404) /\ Refused(d, 404)
              /\ (~missing /\ linked) => Refused(a, 409)
              /\ (~missing /\ ~linked)
                 => /\ Refused(d, 404)
                    /\ a.status = 200
                    /\ CopiesIn(<<id, name>>, AfterRequest(DB, a).user_allergy) = 1
                    /\ LET back == DeleteAllergy(AfterRequest(DB, a), id, name)
                       IN  /\ back.status = 200
                           /\ AfterRequest(AfterRequest(DB, a), back) = DB

\* an add_allergy has just been answered 409 for a user who has the allergy,
\* while the other user does not have it
C18_Witness ==
    /\ resp.op = "add_allergy" /\ resp.status = 409
    /\ Len(users) = 2
    /\ BagCardinality(user_allergy) = 1

\* ---- C19 -----------------------------------------------------------------
\* C19 as claimed: PUT /product/{id} answers 200 and changes only the
\* fields its body carries, is_active and created_at keeping their values
\* when the body leaves them out; for an id that is not in the table it
\* answers 404 and changes nothing.
C19_UpdateChangesOnlySupplied ==
    \A p \in ProductIds : \A body \in ProductBodies(p) :
        LET r == UpdateProduct(DB, p, body)
        IN  IF p \in DOMAIN products
            THEN /\ r.status = 200
                 /\ AfterRequest(DB, r)
                       = [DB EXCEPT !.products[p] = SetFields(@, body)]
            ELSE Refused(r, 404)

\* ---- C20 -----------------------------------------------------------------
\* C20: delete of a key that is not in the table answers 404, delete of a
\* row that a foreign key still points to answers 409, and both leave the
\* tables as they were; otherwise delete answers 200 and removes exactly
\* the row with that key, all other rows and tables staying as they were.
C20_DeleteRemovesOneRow ==
    \A p \in ProductIds :
        LET r == Delete(DB, p)
        IN  IF p \notin DOMAIN products
            THEN Refused(r, 404)
            ELSE IF \E l \in AllLines(orders) : l.product_id = p
            THEN Refused(r, 409)
            ELSE /\ r.status = 200
                 /\ AfterRequest(DB, r).orders = orders
                 /\ DOMAIN AfterRequest(DB, r).products
                       = (DOMAIN products) \ {p}
                 /\ \A x \in (DOMAIN products) \ {p} :
                       AfterRequest(DB, r).products[x] = products[x]

\* a delete has just been answered 409: the product is in the table and a
\* purchase row points to it, and the other product has been deleted before
C20_Witness ==
    /\ resp.op = "delete_product" /\ resp.status = 409
    /\ \E p \in DOMAIN products :
          /\ DOMAIN products = {p}
          /\ \E l \in AllLines(orders) : l.product_id = p

\* ---- C21 -----------------------------------------------------------------
\* C21 as claimed: create stores the row, and a row that breaks a uniqueness
\* or foreign-key constraint is answered 409 and leaves the tables as they
\* were.
C21_CreateConflict ==
    /\ \A row \in AllergyRows :
          (\E a \in allergy : a.name = row.name)
          => Refused(Create(DB, "allergy", row), 409)
    /\ \A table \in {"interest", "dislike"} : \A row \in PrefRows :
          row.user_id \notin 1..Len(users)
          => Refused(Create(DB, table, row), 409)

\* C21 as amended: create answers 200 and stores the row, all other rows
\* staying as they were; a row that breaks a constraint (an allergy whose
\* name is a row's already, an interest or dislike of a user id that is in
\* no user row) is answered 422 and leaves the tables as they were.
C21_CreateUnprocessable ==
    /\ \A row \in AllergyRows :
          LET r == Create(DB, "allergy", row)
          IN  IF \E a \in allergy : a.name = row.name
              THEN Refused(r, 422)
              ELSE /\ r.status = 200
                   /\ AfterRequest(DB, r) = [DB EXCEPT !.allergy = @ \cup {row}]
    /\ \A table \in {"interest", "dislike"} : \A row \in PrefRows :
          LET r == Create(DB, table, row)
          IN  IF row.user_id \notin 1..Len(users)
              THEN Refused(r, 422)
              ELSE /\ r.status = 200
                   /\ AfterRequest(DB, r) = [DB EXCEPT ![table] = Append(@, row)]

\* a create_allergy has just been answered 422, and the allergy table holds
\* a row that was created before, with the description it was created with
C21_Witness ==
    /\ resp.op = "create_allergy" /\ resp.status = 422
    /\ [name |-> UnknownAllergy, description |-> "severe"] \in allergy
    /\ Cardinality(allergy) = 2

\* ---- C22 -----------------------------------------------------------------
\* C22: listing the interests, or the dislikes, of a user answers 404
\* exactly when no row of the table has that user_id, and otherwise answers
\* 200 with exactly the rows whose user_id is that user.
C22_ListForUser ==
    \A T \in {interest, dislike} : \A id \in UserIds :
        LET r == GetMultiple(T, id)
            mine == {i \in 1..Len(T) : T[i].user_id = id}
        IN  /\ r.status = 404 <=> mine = {}
            /\ r.status \in {200, 404}
            /\ r.status = 200
               => /\ {row.id : row \in r.rows} = mine
                  /\ \A row \in r.rows :
                        row.user_id = id /\ row.name = T[row.id].name

\* get_interests has just answered 200 while the table holds interests of
\* two users, and the dislike table holds none of one of them
C22_Witness ==
    /\ resp.op = "get_interests" /\ resp.status = 200
    /\ {interest[i].user_id : i \in 1..Len(interest)} = {1, 2}
    /\ Len(dislike) = 1

\* ---- C23 -----------------------------------------------------------------
\* C23: add_to_cart of an existing product for a user who has no open order
\* answers 200 and creates exactly one order, with checked_out = false and
\* one line, In cart, of the product and the quantity asked for; the order
\* total is the line total, which is the quantity times the product's
\* price; every order there was before, the user's closed ones among them,
\* and every other table is as before.
C23_FirstAddCreatesOrder ==
    \A u \in Users, p \in ProductIds, q \in AddQtys :
        OpenOf(u) = {}
        => \A r \in AddOutcomes(DB, u, p, q) :
              LET after == AfterRequest(DB, r)
                  n == Len(orders) + 1
              IN  /\ r.status = 200
                  /\ Len(after.orders) = n
                  /\ SubSeq(after.orders, 1, Len(orders)) = orders
                  /\ after = [DB EXCEPT !.orders = after.orders]
                  /\ after.orders[n].user_id = u
                  /\ after.orders[n].checked_out = FALSE
                  /\ BagCardinality(after.orders[n].purchases) = 1
                  /\ \A l \in BagToSet(after.orders[n].purchases) :
                        /\ l.user_id = u /\ l.product_id = p
                        /\ l.quantity = q /\ l.status = IN_CART
                        /\ l.total_amount = after.orders[n].total_amount
                        /\ IsPriceTimes(l.total_amount, products[p].price, q)

\* an add_to_cart has just created the second order of a user whose first
\* order is checked out with its line Purchased; the new order's line is
\* priced at a price the product did not have at the start
C23_Witness ==
    /\ resp.op = "add_to_cart" /\ resp.status = 200
    /\ resp.orders = 1 /\ resp.lines = 1
    /\ Len(orders) = 2
    /\ orders[1].checked_out /\ ~orders[2].checked_out
    /\ \E l \in LinesOf(1) : l.status = PURCHASED /\ l.quantity >= 1
    /\ products["p1"].price = 250
    /\ \E l \in LinesOf(2) :
          l.product_id = "p1" /\ l.quantity = 2 /\ l.total_amount = 50
    /\ orders[2].total_amount = 50

\* ---- C24 -----------------------------------------------------------------
\* the open order of user u holds product p, in lines of quantity >= 1
InCart(u, p) ==
    /\ \E o \in OpenOf(u) : LinesFor(orders[o], p) # {}
    /\ \A o \in OpenOf(u) : \A l \in LinesFor(orders[o], p) : l.quantity >= 1

\* C24: add_to_cart whose commit the store refuses is answered 422 and
\* leaves the tables as they were: for a user_id that is in no user row
\* (foreign key) no order and no line is created, and for a quantity that
\* takes a line of the open order beyond what its column holds (data error)
\* the order keeps its lines and its total.
C24_StoreErrorPersistsNothing ==
    /\ \A p \in ProductIds, q \in AddQtys :
          \A r \in AddOutcomes(DB, NoUser, p, q) : Refused(r, 422)
    /\ \A u \in Users, p \in ProductIds :
          InCart(u, p)
          => \A r \in AddOutcomes(DB, u, p, IntegerMax) : Refused(r, 422)

\* an add_to_cart has just been answered 422 and created nothing, while
\* the shopper has an open order with a line in it and the user id of no
\* user row has no order
C24_Witness ==
    /\ resp.op = "add_to_cart" /\ resp.status = 422
    /\ resp.orders = 0 /\ resp.lines = 0
    /\ \E p \in ProductIds : InCart(Shopper, p)
    /\ \A o \in 1..Len(orders) : orders[o].user_id # NoUser

\* ---- C25 -----------------------------------------------------------------
\* C25: in every state reached by add_to_cart, update_quantity,
\* remove_from_cart, checkout and price changes in between, the
\* total_amount of every order is the sum of the total_amount of its lines,
\* 0 for an order without lines.
C25_OrderTotalIsSumOfLines ==
    \A o \in 1..Len(orders) :
        orders[o].total_amount = TotalOf(orders[o].purchases)

\* an update_quantity has just lowered a line of an open order of two
\* lines; the other line still carries the price it was added at, which is
\* not the product's price any more
C25_Witness ==
    /\ resp.op = "update_quantity" /\ resp.status = 200 /\ resp.lines = 0
    /\ products["p1"].price = 250
    /\ \E o \in OpenOf(Shopper) : \E l1, l2 \in LinesOf(o) :
          /\ l1.product_id = "p1" /\ l1.quantity = 2 /\ l1.total_amount = 25
          /\ l2.product_id = "p2" /\ l2.quantity = 1 /\ l2.total_amount = 100
          /\ orders[o].total_amount = 125

\* ---- C26 -----------------------------------------------------------------
\* C26: in every state reached by add_to_cart, update_quantity,
\* remove_from_cart and checkout calls made one after the other, failed
\* ones among them, each product has on hand what it had at the start less
\* the quantities of its lines with status Purchased, and never less than
\* nothing.
C26_InventoryConserved ==
    \A p \in ProductIds :
        /\ products[p].quantity = InitialStock[p] - Sold(Len(orders), p)
        /\ products[p].quantity >= 0

\* a checkout has just failed for want of stock: the other user has bought
\* all there was of the product, and the line that could not be served is
\* still in the cart
C26_Witness ==
    /\ resp.op = "checkout" /\ resp.status = 400
    /\ products["p1"].quantity = 0
    /\ \E u \in Users, v \in Users :
          /\ u # v
          /\ \E o \in ClosedOf(u) : \E l \in LinesOf(o) :
                l.product_id = "p1" /\ l.quantity = 2 /\ l.status = PURCHASED
          /\ \E o \in OpenOf(v) : \E l \in LinesOf(o) :
                l.product_id = "p1" /\ l.quantity >= 1 /\ l.status = IN_CART

\* ---- C29 -----------------------------------------------------------------
\* C29: in every state reached by add_to_cart, update_quantity and
\* remove_from_cart calls made one after the other, an open order has at
\* most one line for each product, and an add_to_cart of a product the cart
\* holds answers 200 with as many lines in the order as before.
C29_OneLinePerProduct ==
    /\ \A o \in 1..Len(orders) : \A p \in ProductIds :
          ~orders[o].checked_out
          => /\ Cardinality(LinesFor(orders[o], p)) <= 1
             /\ \A l \in LinesFor(orders[o], p) :
                   CopiesIn(l, orders[o].purchases) = 1
    /\ \A u \in Users : \A o \in OpenOf(u) : \A p \in ProductIds :
          LinesFor(orders[o], p) # {}
          => \A q \in AddQtys : \A r \in AddOutcomes(DB, u, p, q) :
                /\ r.status = 200
                /\ Len(AfterRequest(DB, r).orders) = Len(orders)
                /\ BagCardinality(AfterRequest(DB, r).orders[o].purchases)
                      = BagCardinality(orders[o].purchases)

\* an add_to_cart has just raised the quantity of a line of an open order
\* that has a line of the other product too
C29_Witness ==
    /\ resp.op = "add_to_cart" /\ resp.status = 200
    /\ resp.orders = 0 /\ resp.lines = 0
    /\ \E u \in Users : \E o \in OpenOf(u) :
          /\ BagCardinality(orders[o].purchases) = 2
          /\ \E l \in LinesFor(orders[o], "p1") : l.quantity = 2
          /\ \E l \in LinesFor(orders[o], "p2") : l.quantity = 1

\* ---- C30 -----------------------------------------------------------------
\* C30: an order that is checked out is the same after every step: no
\* add_to_cart, update_quantity, remove_from_cart or checkout of any user
\* and no price change alters its total_amount or its lines, their
\* quantities, totals and statuses.
C30_ClosedOrdersFrozen ==
    [][\A o \in 1..Len(orders) :
          orders[o].checked_out
          => /\ o \in 1..Len(orders')
             /\ orders'[o] = orders[o]]_vars

\* a user has checked out an order and, after a price change, has a new
\* cart from which a line of the product bought before has just been
\* removed; the checked-out order carries the old price
C30_Witness ==
    /\ resp.op = "remove_from_cart" /\ resp.status = 200 /\ resp.lines = -1
    /\ products["p1"].price = 250
    /\ \E u \in Users : \E o \in ClosedOf(u) :
          /\ OpenOf(u) # {}
          /\ orders[o].total_amount = 12
          /\ \E l \in LinesOf(o) :
                /\ l.product_id = "p1" /\ l.quantity = 1
                /\ l.total_amount = 12 /\ l.status = PURCHASED

\* ---- C28 -----------------------------------------------------------------
\* the request closed order o of the orders of user u, marking its lines
\* Purchased, left every other order as it was, and add_to_cart and
\* update_quantity for what the open order holds are answered 200 on the
\* tables it left
ClosedOneOf(u, r) ==
    LET after == AfterRequest(DB, r)
    IN  /\ r.status = 200
        /\ \E o \in OpenOf(u) :
              /\ after.orders =
                    [orders EXCEPT
                        ![o].checked_out = TRUE,
                        ![o].purchases = BagOfAll(Purchased, @)]
              /\ Cardinality(OpenOrderIds(after.orders, u)) = 1
              /\ OpenOrderIds(after.orders, u) = OpenOf(u) \ {o}
        /\ \A p \in ProductIds, q \in AddQtys :
              \A r2 \in AddOutcomes(after, u, p, q) : r2.status = 200
        /\ \A o \in OpenOrderIds(after.orders, u) :
           \A l \in BagToSet(after.orders[o].purchases) :
           \A d \in Deltas \ {0} :
              \A r2 \in UpdateOutcomes(after, u, l.product_id, d) :
                  r2.status = 200

\* C28 as claimed: for a user with two open orders every checkout closes
\* exactly one of them and leaves the other open and unchanged, after which
\* add_to_cart and update_quantity are answered 200.
C28_CheckoutAlwaysClosesOne ==
    \A u \in Users :
        Cardinality(OpenOf(u)) = 2
        => \A r \in CheckoutOutcomes(DB, u) : ClosedOneOf(u, r)

\* C28 as amended: for a user with two open orders a checkout takes one of
\* them.  When a line of that order asks for more than is on hand the
\* checkout answers 400 and both orders stay open and unchanged; otherwise
\* it answers 200, closes that order alone, leaves the other open with its
\* lines, statuses and total unchanged, and add_to_cart and update_quantity
\* are answered 200 again.
C28_CheckoutClosesOneOfTwo ==
    \A u \in Users :
        Cardinality(OpenOf(u)) = 2
        => /\ \A r \in CheckoutOutcomes(DB, u) :
                 \/ ClosedOneOf(u, r)
                 \/ /\ Refused(r, 400)
                    /\ \E o \in OpenOf(u) : \E l \in LinesOf(o) :
                          l.quantity > OnHand(l)
           /\ \A o \in OpenOf(u) :
                 (\A l \in LinesOf(o) : l.quantity <= OnHand(l))
                 => \E r \in CheckoutOutcomes(DB, u) :
                       /\ r.status = 200
                       /\ AfterRequest(DB, r).orders[o].checked_out

\* a checkout has just closed one of the two orders that two add_to_cart
\* requests running together had created; the other is still open with its
\* line In cart
C28_Witness ==
    /\ resp.op = "checkout" /\ resp.status = 200
    /\ \E s \in Sessions, t \in Sessions :
          Together(s, t) /\ BothSawNone(s, t, Shopper)
    /\ Cardinality(ClosedOf(Shopper)) = 1
    /\ Cardinality(OpenOf(Shopper)) = 1
    /\ \A o \in ClosedOf(Shopper) : \E l \in LinesOf(o) : l.status = PURCHASED
    /\ \A o \in OpenOf(Shopper) : \E l \in LinesOf(o) : l.status = IN_CART

\* ---- C27 -----------------------------------------------------------------
\* the checkouts of sessions s and t, of different users, ran together and
\* both are answered
CheckedOutTogether(s, t) ==
    /\ reqs[s].pc = "checked" /\ reqs[t].pc = "checked"
    /\ Together(s, t)
    /\ reqs[s].rd.user_id # reqs[t].rd.user_id

\* C27 as claimed: after two checkouts of different users that ran
\* together, in whichever way their steps were interleaved, every product
\* has on hand what it had at the start less the quantities of the lines
\* that the checkouts that succeeded marked Purchased, and not less than
\* nothing.
C27_NoLostDecrement ==
    \A s \in Sessions, t \in Sessions :
        CheckedOutTogether(s, t)
        => \A p \in ProductIds :
              /\ products[p].quantity = InitialStock[p] - Sold(Len(orders), p)
              /\ products[p].quantity >= 0

====
